---- MODULE Spec2Model ----
(***************************************************************************)
(* The loss-composition engine of shimmer (src/shimmer/modules/losses.py). *)
(*                                                                         *)
(* Tensors are abstracted to exact rationals <<numerator, denominator>>;   *)
(* a Python dict is a TLA+ function over its keys (strings), a dict or a   *)
(* frozenset that is iterated is a sequence giving its iteration order.    *)
(* The domain modules' loss hooks and the contrastive function are         *)
(* external: a hook call either returns None or a LossOutput whose loss is *)
(* drawn with the call's inputs.                                           *)
(***************************************************************************)
EXTENDS Integers, Sequences, FiniteSets, TLC

VARIABLES domain_mods, pc, op, latent_domains, none_hooks, hook_loss,
          metrics_arg, coefs_arg, out,
          self_loss_mod, data_arg, batch_arg, idx_arg, logged

vars == <<domain_mods, pc, op, latent_domains, none_hooks, hook_loss,
          metrics_arg, coefs_arg, out,
          self_loss_mod, data_arg, batch_arg, idx_arg, logged>>

\* What only the steps of the workspace set: the loss engine it was built
\* with, the arguments of the step and the metrics it logged.
stepvars == <<self_loss_mod, data_arg, batch_arg, idx_arg, logged>>

(* ------------------------------ bounds -------------------------------- *)

\* Largest number of domain groups in one batch.
MaxGroups == 3

\* Domain names: three plain ones, and three that contain the separator
\* "_to_" that translation_loss puts between sources and target.
PlainNames == {"a", "b", "c"}
OddNames == {"t_to_v", "v", "v_to_t"}

\* The names' place in Python's string order (what sorted() uses).
Rank(d) ==
  CASE d = "a" -> 1 [] d = "b" -> 2 [] d = "c" -> 3
    [] d = "t_to_v" -> 1 [] d = "v" -> 2 [] d = "v_to_t" -> 3

(* --------------------------- Python helpers --------------------------- *)

Range(s) == {s[i] : i \in DOMAIN s}

EmptyDict == <<>>

\* d[k] = v
DictSet(d, k, v) == (k :> v) @@ d

\* d.update(e)
DictUpdate(d, e) == e @@ d

\* list(d.values()) as the bag of values, in key order k1 < k2 < ...: a sequence
RECURSIVE SeqOfSet(_)
SeqOfSet(S) ==
  IF S = {} THEN <<>>
  ELSE LET x == CHOOSE y \in S : TRUE IN <<x>> \o SeqOfSet(S \ {x})

DictValues(d) == LET ks == SeqOfSet(DOMAIN d) IN [i \in DOMAIN ks |-> d[ks[i]]]

\* sorted(S) for a set of domain names
RECURSIVE Sorted(_)
Sorted(S) ==
  IF S = {} THEN <<>>
  ELSE LET x == CHOOSE y \in S : \A z \in S : Rank(y) <= Rank(z)
       IN <<x>> \o Sorted(S \ {x})

\* {prefix + k: v for k, v in d.items()}
RECURSIVE PrefixFrom(_, _, _)
PrefixFrom(prefix, d, ks) ==
  IF Len(ks) = 0 THEN EmptyDict
  ELSE DictSet(PrefixFrom(prefix, d, Tail(ks)), prefix \o ks[1], d[ks[1]])

PrefixDict(prefix, d) == PrefixFrom(prefix, d, SeqOfSet(DOMAIN d))

\* sep.join(names)
RECURSIVE Join(_, _)
Join(names, sep) ==
  IF Len(names) = 0 THEN ""
  ELSE IF Len(names) = 1 THEN names[1]
  ELSE names[1] \o sep \o Join(Tail(names), sep)

(* ----------------------------- rationals ------------------------------ *)

RECURSIVE GCD(_, _)
GCD(a, b) == IF b = 0 THEN a ELSE GCD(b, a % b)

Abs(n) == IF n < 0 THEN -n ELSE n

\* n/d in lowest terms with d > 0
Rat(n, d) ==
  LET g == GCD(Abs(n), Abs(d))
      s == IF d < 0 THEN -1 ELSE 1
  IN <<(s * n) \div g, (s * d) \div g>>

Int2Rat(n) == <<n, 1>>
RatAdd(x, y) == Rat(x[1] * y[2] + y[1] * x[2], x[2] * y[2])
RatMul(x, y) == Rat(x[1] * y[1], x[2] * y[2])
RatPos(x) == x[1] > 0

RECURSIVE RatSum(_)
RatSum(xs) == IF Len(xs) = 0 THEN <<0, 1>> ELSE RatAdd(xs[1], RatSum(Tail(xs)))

\* torch.stack(xs, dim=0).mean() for a non-empty list xs
StackMean(xs) == RatMul(RatSum(xs), Rat(1, Len(xs)))

\* What a call hands back: the dict it returns or the exception it raises,
\* and the record of what it did on the way (stores, appends, calls).
Returned(d, log) == [raised |-> "no", ret |-> d, log |-> log]
Raised(e, log) == [raised |-> e, ret |-> EmptyDict, log |-> log]
NoLog == <<>>

(* ------------------------ external collaborators ---------------------- *)

HookKinds == {"dcy", "cy", "tr", "fused"}

None == [none |-> TRUE]

\* domain_mods[d].compute_<kind>_loss(...): None, or a LossOutput with a loss
\* and one auxiliary metric "m".
HookOutput(kind, d, nh, hl) ==
  IF <<kind, d>> \in nh THEN None
  ELSE [loss |-> Int2Rat(hl[d]), metrics |-> ("m" :> Int2Rat(hl[d] + 10))]

(* --------------------------- demi_cycle_loss -------------------------- *)

\* One pass of the loop over latent_domains.items(); st holds the function's
\* local variables and `raised`, the exception that ended its loops, if any.
DemiCycleBody(st, domains, nh, hl) ==
  IF Len(domains) > 1 THEN st
  ELSE IF Len(domains) = 0 THEN [st EXCEPT !.raised = "StopIteration"]
  ELSE
    LET domain_name == domains[1]
        loss_output == HookOutput("dcy", domain_name, nh, hl)
    IN IF loss_output = None THEN st
       ELSE [st EXCEPT
               !.losses = DictSet(@, "demi_cycle_" \o domain_name, loss_output.loss),
               !.metrics = DictUpdate(@,
                  PrefixDict("demi_cycle_" \o domain_name \o "_",
                             loss_output.metrics))]

RECURSIVE DemiCycleLoop(_, _, _, _)
DemiCycleLoop(st, groups, nh, hl) ==
  IF Len(groups) = 0 \/ st.raised # "no" THEN st
  ELSE DemiCycleLoop(DemiCycleBody(st, groups[1], nh, hl), Tail(groups), nh, hl)

\* A demi_cycle_loss that merges the hooks' metrics before it takes the mean.
DemiCycleSummands_WithMetrics(st) ==
  DictValues(st.losses) \o DictValues(st.metrics)

\* The values the summary is the mean of: list(losses.values()).
DemiCycleSummands(st) == DictValues(st.losses)

demi_cycle_loss(groups, nh, hl) ==
  LET st == DemiCycleLoop([losses |-> EmptyDict, metrics |-> EmptyDict, raised |-> "no"],
                          groups, nh, hl)
      xs == DemiCycleSummands(st)
  IN IF st.raised # "no" THEN Raised(st.raised, NoLog)
     ELSE IF Len(xs) = 0 THEN Raised("RuntimeError", NoLog)
     ELSE Returned(DictUpdate(DictSet(st.losses, "demi_cycles", StackMean(xs)),
                              st.metrics), NoLog)

(* ------------------------------ cycle_loss ---------------------------- *)

\* A cycle_loss that also cycles a domain through itself.
CycleSkipsTarget_Never(source, target) == FALSE

\* `if domain_name_target == domain_name_source: continue`
CycleSkipsTarget(source, target) == target = source

\* One pass of the inner loop, over the known domains as intermediate target.
CycleTargetBody(st, source, target, nh, hl) ==
  IF CycleSkipsTarget(source, target) THEN st
  ELSE
    LET loss_name == source \o "_through_" \o target
        loss_output == HookOutput("cy", source, nh, hl)
    IN IF loss_output = None THEN st
       ELSE [st EXCEPT
               !.losses = DictSet(@, "cycle_" \o loss_name, loss_output.loss),
               !.metrics = DictUpdate(@,
                  PrefixDict("cycle_" \o loss_name \o "_", loss_output.metrics))]

RECURSIVE CycleTargetLoop(_, _, _, _, _)
CycleTargetLoop(st, source, targets, nh, hl) ==
  IF Len(targets) = 0 \/ st.raised # "no" THEN st
  ELSE CycleTargetLoop(CycleTargetBody(st, source, targets[1], nh, hl),
                       source, Tail(targets), nh, hl)

\* One pass of the loop over latent_domains.items().
CycleBody(st, domains_source, dm, nh, hl) ==
  IF Len(domains_source) > 1 THEN st
  ELSE IF Len(domains_source) = 0 THEN [st EXCEPT !.raised = "IndexError"]
  ELSE CycleTargetLoop(st, domains_source[1], SeqOfSet(dm), nh, hl)

RECURSIVE CycleLoop(_, _, _, _, _)
CycleLoop(st, groups, dm, nh, hl) ==
  IF Len(groups) = 0 \/ st.raised # "no" THEN st
  ELSE CycleLoop(CycleBody(st, groups[1], dm, nh, hl), Tail(groups), dm, nh, hl)

cycle_loss(dm, groups, nh, hl) ==
  LET st == CycleLoop([losses |-> EmptyDict, metrics |-> EmptyDict, raised |-> "no"],
                      groups, dm, nh, hl)
      xs == DictValues(st.losses)
  IN IF st.raised # "no" THEN Raised(st.raised, NoLog)
     ELSE IF Len(xs) = 0 THEN Raised("RuntimeError", NoLog)
     ELSE Returned(DictUpdate(DictSet(st.losses, "cycles", StackMean(xs)),
                              st.metrics), NoLog)

(* --------------------------- translation_loss ------------------------- *)

\* The guard before a translation loss is stored: `if loss_name in losses`.
TranslationAlreadyComputed(losses, loss_name) == loss_name \in DOMAIN losses

\* One pass of the inner loop, over the group's domains as target;
\* st = [losses, metrics, raised, log].
TranslationTargetBody(st, domains, domain_name_target, nh, hl) ==
    LET domain_sources == SelectSeq(domains, LAMBDA d : d # domain_name_target)
        loss_name == Join(domain_sources, "/") \o "_to_" \o domain_name_target
        loss_output == HookOutput("tr", domain_name_target, nh, hl)
    IN IF TranslationAlreadyComputed(st.losses, loss_name)
         THEN [st EXCEPT !.raised = "ValueError"]
       ELSE IF loss_output = None THEN st
       ELSE [st EXCEPT
               !.losses = DictSet(@, "translation_" \o loss_name, loss_output.loss),
               !.metrics = DictUpdate(@,
                  PrefixDict("translation_" \o loss_name \o "_", loss_output.metrics)),
               !.log = Append(@, [ev |-> "store",
                                  name |-> "translation_" \o loss_name,
                                  group |-> Range(domains),
                                  sources |-> domain_sources,
                                  target |-> domain_name_target])]

RECURSIVE TranslationTargetLoop(_, _, _, _, _)
TranslationTargetLoop(st, domains, targets, nh, hl) ==
  IF Len(targets) = 0 \/ st.raised # "no" THEN st
  ELSE TranslationTargetLoop(
         TranslationTargetBody(st, domains, targets[1], nh, hl),
         domains, Tail(targets), nh, hl)

\* One pass of the loop over latent_domains.items().
TranslationBody(st, domains, nh, hl) ==
  IF Len(domains) < 2 THEN st
  ELSE TranslationTargetLoop(st, domains, domains, nh, hl)

RECURSIVE TranslationLoop(_, _, _, _)
TranslationLoop(st, groups, nh, hl) ==
  IF Len(groups) = 0 \/ st.raised # "no" THEN st
  ELSE TranslationLoop(TranslationBody(st, groups[1], nh, hl), Tail(groups), nh, hl)

translation_loss(groups, nh, hl) ==
  LET st == TranslationLoop([losses |-> EmptyDict, metrics |-> EmptyDict,
                             raised |-> "no", log |-> <<>>], groups, nh, hl)
      xs == DictValues(st.losses)
  IN IF st.raised # "no" THEN Raised(st.raised, st.log)
     ELSE IF Len(xs) = 0 THEN Raised("RuntimeError", st.log)
     ELSE Returned(DictUpdate(DictSet(st.losses, "translations", StackMean(xs)),
                              st.metrics), st.log)

(* --------------------------- contrastive_loss ------------------------- *)

\* gw_mod.encode(latents): one projection per domain present, no fusion.
gw_encode(latents) == latents

\* contrastive_fn(z1, z2): a LossOutput with a loss and one auxiliary metric.
contrastive_fn(domain1, domain2, hl) ==
  [loss |-> Int2Rat(hl[domain1] + hl[domain2]),
   metrics |-> ("m" :> Int2Rat(hl[domain1] + hl[domain2] + 10))]

\* A contrastive_loss that takes every group of two domains or more.
ContrastiveSkipsGroup_OnlySingles(latents) == Len(latents) < 2

\* `if len(latents) != 2: continue`
ContrastiveSkipsGroup(latents) == Len(latents) # 2

\* A contrastive_loss that does not look up the pairs already scored.
ContrastiveSkipsPair_NoLookup(domain1, domain2, keys) == domain1 = domain2

\* `if domain1 == domain2 or selected_domains in keys: continue`
ContrastiveSkipsPair(domain1, domain2, keys) ==
  domain1 = domain2 \/ {domain1, domain2} \in Range(keys)

\* One pass of the innermost loop, for the pair (domain1, domain2) of a group.
ContrastivePairBody(st, group, domain1, domain2, hl) ==
  IF ContrastiveSkipsPair(domain1, domain2, st.keys) THEN st
  ELSE
    LET loss_name == "contrastive_" \o domain1 \o "_and_" \o domain2
        loss_output == contrastive_fn(domain1, domain2, hl)
    IN [st EXCEPT
          !.losses = DictSet(@, loss_name, loss_output.loss),
          !.metrics = DictUpdate(@, PrefixDict(loss_name \o "_", loss_output.metrics)),
          !.keys = Append(@, {domain1, domain2}),
          !.log = Append(@, [ev |-> "call", name |-> loss_name, group |-> group,
                             domain1 |-> domain1, domain2 |-> domain2])]

RECURSIVE ContrastiveInnerLoop(_, _, _, _, _)
ContrastiveInnerLoop(st, group, domain1, seconds, hl) ==
  IF Len(seconds) = 0 \/ st.raised # "no" THEN st
  ELSE ContrastiveInnerLoop(ContrastivePairBody(st, group, domain1, seconds[1], hl),
                            group, domain1, Tail(seconds), hl)

RECURSIVE ContrastiveOuterLoop(_, _, _, _)
ContrastiveOuterLoop(st, firsts, cont_latents, hl) ==
  IF Len(firsts) = 0 \/ st.raised # "no" THEN st
  ELSE ContrastiveOuterLoop(
         ContrastiveInnerLoop(st, Range(cont_latents), firsts[1], cont_latents, hl),
         Tail(firsts), cont_latents, hl)

\* One pass of the loop over latent_domains.values().
ContrastiveBody(st, latents, hl) ==
  IF ContrastiveSkipsGroup(latents) THEN st
  ELSE LET cont_latents == gw_encode(latents)
       IN ContrastiveOuterLoop(st, cont_latents, cont_latents, hl)

RECURSIVE ContrastiveLoop(_, _, _)
ContrastiveLoop(st, groups, hl) ==
  IF Len(groups) = 0 \/ st.raised # "no" THEN st
  ELSE ContrastiveLoop(ContrastiveBody(st, groups[1], hl), Tail(groups), hl)

\* A contrastive_loss that writes its summary only when it scored a pair.
contrastive_loss_NoSummaryWhenEmpty(groups, hl) ==
  LET st == ContrastiveLoop([losses |-> EmptyDict, metrics |-> EmptyDict,
                             keys |-> <<>>, log |-> <<>>, raised |-> "no"],
                            groups, hl)
      xs == DictValues(st.losses)
  IN IF Len(xs) = 0 THEN Returned(DictUpdate(st.losses, st.metrics), st.log)
     ELSE Returned(DictUpdate(DictSet(st.losses, "contrastives", StackMean(xs)),
                              st.metrics), st.log)

contrastive_loss(groups, hl) ==
  LET st == ContrastiveLoop([losses |-> EmptyDict, metrics |-> EmptyDict,
                             keys |-> <<>>, log |-> <<>>, raised |-> "no"],
                            groups, hl)
      xs == DictValues(st.losses)
  IN IF Len(xs) = 0 THEN Raised("RuntimeError", st.log)
     ELSE Returned(DictUpdate(DictSet(st.losses, "contrastives", StackMean(xs)),
                              st.metrics), st.log)

(* ---------------------------- broadcast_loss -------------------------- *)

\* itertools.product([0, 1], repeat=n), in its order
RECURSIVE Product01(_)
Product01(n) ==
  IF n = 0 THEN << <<>> >>
  ELSE LET r == Product01(n - 1)
       IN [i \in DOMAIN r |-> <<0>> \o r[i]] \o [i \in DOMAIN r |-> <<1>> \o r[i]]

\* any(perm)
AnyOf(perm) == \E i \in DOMAIN perm : perm[i] # 0

\* A generate_partitions that forgets to drop the all-zeros tuple.
generate_partitions_AllZerosKept(n) == Product01(n)

generate_partitions(n) == SelectSeq(Product01(n), AnyOf)

\* gw_mod.decode(z, domains): the requested domains, by default all known ones.
gw_decode_all(dm) == Sorted(dm)

\* "{" + ",".join(sorted(names)) + "}"
GroupLabel(names) == "{" \o Join(Sorted(names), ",") \o "}"

\* The domains of latents whose bit of the partition is set, in dict order.
RECURSIVE SelectedLatents(_, _)
SelectedLatents(latents, partition) ==
  IF Len(latents) = 0 THEN <<>>
  ELSE (IF partition[1] # 0 THEN <<latents[1]>> ELSE <<>>)
       \o SelectedLatents(Tail(latents), Tail(partition))

\* The hook chosen for a decoded domain (the first if/elif/else).
BroadcastLossFn(num_active_domains, domain, selected) ==
  IF num_active_domains = 1 /\ domain \in selected THEN "dcy"
  ELSE IF domain \notin selected THEN "tr"
  ELSE "fused"

\* A choice of bucket that forgets `domain in selected_latents`.
BroadcastBucket_SingleActive(num_active_domains, domain, selected) ==
  IF num_active_domains = 1 THEN "demi_cycles"
  ELSE IF domain \notin selected THEN "translations"
  ELSE "fused"

\* The bucket list the loss name is appended to (the second if/elif/else).
BroadcastBucket(num_active_domains, domain, selected) ==
  IF num_active_domains = 1 /\ domain \in selected THEN "demi_cycles"
  ELSE IF domain \notin selected THEN "translations"
  ELSE "fused"

\* f"from_{selected_group_label}_to_{domain}"
BroadcastLabel(selected, domain) ==
  "from_" \o GroupLabel(selected) \o "_to_" \o domain

\* The label of a cycle loss.
BroadcastCycleLabel(selected, inverse, domain, group) ==
  "from_" \o GroupLabel(selected) \o "_through_" \o GroupLabel(inverse)
    \o "_to_" \o domain \o "_case_" \o GroupLabel(group)

\* losses[name] = loss; metrics.update(...); <bucket>.append(name)
BroadcastStore(st, label, loss_output, bucket, group, selected, domain) ==
  [st EXCEPT
     !.losses = DictSet(@, label \o "_loss", loss_output.loss),
     !.metrics = DictUpdate(@, PrefixDict(label \o "_", loss_output.metrics)),
     !.buckets = [@ EXCEPT ![bucket] = Append(@, label \o "_loss")],
     !.log = Append(@, [ev |-> "store", name |-> label \o "_loss",
                        bucket |-> bucket, group |-> group,
                        active |-> selected, target |-> domain])]

\* One pass of the loop over decoded_latents.items().
BroadcastTargetBody(st, group, selected, domain, nh, hl) ==
  IF domain \notin group THEN st
  ELSE
    LET num_active_domains == Cardinality(selected)
        loss_fn == BroadcastLossFn(num_active_domains, domain, selected)
        loss_output == HookOutput(loss_fn, domain, nh, hl)
    IN IF loss_output = None THEN st
       ELSE BroadcastStore(st, BroadcastLabel(selected, domain), loss_output,
                           BroadcastBucket(num_active_domains, domain, selected),
                           group, selected, domain)

RECURSIVE BroadcastTargetLoop(_, _, _, _, _, _)
BroadcastTargetLoop(st, group, selected, decoded, nh, hl) ==
  IF Len(decoded) = 0 \/ st.raised # "no" THEN st
  ELSE BroadcastTargetLoop(
         BroadcastTargetBody(st, group, selected, decoded[1], nh, hl),
         group, selected, Tail(decoded), nh, hl)

\* A cycle part that also runs when every decoded domain is active.
BroadcastDoesCycle_AlsoWhenAll(num_active_domains, num_total_domains) ==
  num_active_domains <= num_total_domains

\* `if num_active_domains < num_total_domains`
BroadcastDoesCycle(num_active_domains, num_total_domains) ==
  num_active_domains < num_total_domains

\* One pass of the loop over selected_latents, in the cycle part.
BroadcastCycleBody(st, group, selected, inverse, domain, nh, hl) ==
  LET re_loss_output == HookOutput("cy", domain, nh, hl)
  IN IF re_loss_output = None THEN st
     ELSE BroadcastStore(st, BroadcastCycleLabel(selected, inverse, domain, group),
                         re_loss_output, "cycles", group, selected, domain)

RECURSIVE BroadcastCycleLoop(_, _, _, _, _, _, _)
BroadcastCycleLoop(st, group, selected, inverse, todo, nh, hl) ==
  IF Len(todo) = 0 \/ st.raised # "no" THEN st
  ELSE BroadcastCycleLoop(
         BroadcastCycleBody(st, group, selected, inverse, todo[1], nh, hl),
         group, selected, inverse, Tail(todo), nh, hl)

\* One pass of the loop over the partitions of a group.
BroadcastPartitionBody(st, dm, latents, partition, nh, hl) ==
  LET group == Range(latents)
      selected_latents == SelectedLatents(latents, partition)
      selected == Range(selected_latents)
      decoded_latents == gw_decode_all(dm)
      st1 == [st EXCEPT !.log = Append(@, [ev |-> "partition", group |-> group,
                                           active |-> selected])]
      st2 == BroadcastTargetLoop(st1, group, selected, decoded_latents, nh, hl)
  IN IF BroadcastDoesCycle(Cardinality(selected), Len(decoded_latents))
       THEN BroadcastCycleLoop(st2, group, selected,
                               Range(decoded_latents) \ selected,
                               selected_latents, nh, hl)
     ELSE st2

RECURSIVE BroadcastPartitionLoop(_, _, _, _, _, _)
BroadcastPartitionLoop(st, dm, latents, partitions, nh, hl) ==
  IF Len(partitions) = 0 \/ st.raised # "no" THEN st
  ELSE BroadcastPartitionLoop(
         BroadcastPartitionBody(st, dm, latents, partitions[1], nh, hl),
         dm, latents, Tail(partitions), nh, hl)

RECURSIVE BroadcastLoop(_, _, _, _, _)
BroadcastLoop(st, dm, groups, nh, hl) ==
  IF Len(groups) = 0 \/ st.raised # "no" THEN st
  ELSE BroadcastLoop(
         BroadcastPartitionLoop(st, dm, groups[1],
                                generate_partitions(Len(groups[1])), nh, hl),
         dm, Tail(groups), nh, hl)

\* [losses[loss_name] for loss_name in names]
LossesOf(losses, names) == [i \in DOMAIN names |-> losses[names[i]]]

\* Weights that single out the first cycle loss instead of the second.
CycleWeights_First(n) == [i \in 1..n |-> IF n > 1 /\ i = 1 THEN 3 ELSE 1]

\* The weights of the cycle losses, before they are normalised.
CycleWeights(n) == [i \in 1..n |-> IF n > 1 /\ i = 2 THEN 3 ELSE 1]

\* torch.sum(torch.stack([losses[name] * w ...])) with the normalised weights
WeightedCycles(xs) ==
  LET n == Len(xs)
      w == CycleWeights(n)
      total == RatSum([i \in 1..n |-> Int2Rat(w[i])])
  IN RatSum([i \in 1..n |->
       RatMul(xs[i], RatMul(RatMul(Int2Rat(w[i]), Rat(total[2], total[1])),
                            Int2Rat(n)))])

\* A summary that is written only for a bucket of two losses or more.
BucketHasSummary_TwoOrMore(names) == Len(names) > 1

\* `if <bucket list>:` a summary is written for a non-empty bucket only.
BucketHasSummary(names) == Len(names) > 0

\* The summaries of the four buckets.
BroadcastSummaries(losses, buckets) ==
  (IF BucketHasSummary(buckets["demi_cycles"])
     THEN "demi_cycles" :> StackMean(LossesOf(losses, buckets["demi_cycles"]))
     ELSE EmptyDict)
  @@ (IF BucketHasSummary(buckets["cycles"])
        THEN "cycles" :> WeightedCycles(LossesOf(losses, buckets["cycles"]))
        ELSE EmptyDict)
  @@ (IF BucketHasSummary(buckets["translations"])
        THEN "translations" :> StackMean(LossesOf(losses, buckets["translations"]))
        ELSE EmptyDict)
  @@ (IF BucketHasSummary(buckets["fused"])
        THEN "fused" :> StackMean(LossesOf(losses, buckets["fused"]))
        ELSE EmptyDict)

BucketNames == {"demi_cycles", "cycles", "translations", "fused"}

broadcast_loss(dm, groups, nh, hl) ==
  LET st == BroadcastLoop([losses |-> EmptyDict, metrics |-> EmptyDict,
                           buckets |-> [b \in BucketNames |-> <<>>],
                           log |-> <<>>, raised |-> "no"], dm, groups, nh, hl)
      metrics == DictUpdate(st.metrics, BroadcastSummaries(st.losses, st.buckets))
  IN Returned(DictUpdate(metrics, st.losses), st.log)

(* ----------------------------- combine_loss --------------------------- *)

\* A coefficient as written in a coefficient table: a Python float or int.
Float(n, d) == [type |-> "float", val |-> Rat(n, d)]
PyInt(n) == [type |-> "int", val |-> Int2Rat(n)]

\* A combine_loss that also takes a coefficient of exactly 0.
CombineSelects_ZeroTaken(metrics, name, coef) ==
  name \in DOMAIN metrics /\ coef.type = "float" /\ coef.val[1] >= 0

\* A combine_loss that takes every coefficient other than 0, negative ones too.
CombineSelects_NegativeTaken(metrics, name, coef) ==
  name \in DOMAIN metrics /\ coef.type = "float" /\ coef.val[1] # 0

\* `if name in metrics and isinstance(coef, float) and coef > 0`
CombineSelects(metrics, name, coef) ==
  name \in DOMAIN metrics /\ coef.type = "float" /\ RatPos(coef.val)

\* The list comprehension over coefs.items().
RECURSIVE CombineTerms(_, _, _)
CombineTerms(metrics, coefs, names) ==
  IF Len(names) = 0 THEN <<>>
  ELSE (IF CombineSelects(metrics, names[1], coefs[names[1]])
          THEN <<RatMul(metrics[names[1]], coefs[names[1]].val)>>
          ELSE <<>>)
       \o CombineTerms(metrics, coefs, Tail(names))

\* torch.stack([...], dim=0).mean() of the selected terms
CombineReduce(terms) == StackMean(terms)

\* combine_loss returns a tensor: it is handed back under the key "loss".
combine_loss(metrics, coefs) ==
  LET terms == CombineTerms(metrics, coefs, SeqOfSet(DOMAIN coefs))
  IN IF Len(terms) = 0 THEN Raised("RuntimeError", NoLog)
     ELSE Returned("loss" :> CombineReduce(terms), NoLog)

(* ------------------------------ loss steps ---------------------------- *)

\* LossOutput(loss, metrics): a scalar loss and the map of the metrics.
LossOutput(loss, metrics) == [loss |-> loss, metrics |-> metrics]

\* metrics.update(<family>(...)) for the families in turn; the first family
\* that raises ends the step. acc = [raised, ret, log].
RECURSIVE StepUpdate(_, _)
StepUpdate(acc, results) ==
  IF Len(results) = 0 \/ acc.raised # "no" THEN acc
  ELSE LET r == results[1]
       IN StepUpdate(IF r.raised # "no" THEN Raised(r.raised, acc.log \o r.log)
                     ELSE Returned(DictUpdate(acc.ret, r.ret), acc.log \o r.log),
                     Tail(results))

\* `return LossOutput(combine_loss(metrics, self.loss_coefs), metrics)`, for
\* the metrics gathered in acc, unless a family raised.
StepCombine(acc, loss) ==
  IF acc.raised # "no" THEN acc
  ELSE IF loss.raised # "no" THEN Raised(loss.raised, acc.log)
  ELSE Returned(LossOutput(loss.ret["loss"], acc.ret), acc.log)

StepCombined(acc, coefs) == StepCombine(acc, combine_loss(acc.ret, coefs))

\* GWLosses2Domains.step: the four families, then combine_loss.
GWLosses2Domains_step(dm, groups, nh, hl, coefs) ==
  StepCombined(StepUpdate(Returned(EmptyDict, NoLog),
                          <<demi_cycle_loss(groups, nh, hl),
                            cycle_loss(dm, groups, nh, hl),
                            translation_loss(groups, nh, hl),
                            contrastive_loss(groups, hl)>>),
               coefs)

\* The names whose metrics make up the metric `broadcast_loss`:
\* `isinstance(coef, float) and coef > 0 and name != "contrastives"`.
BroadcastLossSelects(name, coef) ==
  coef.type = "float" /\ RatPos(coef.val) /\ name # "contrastives"

\* A metric `broadcast_loss` that, like combine_loss, passes over the selected
\* names that are not among the metrics.
BroadcastLossMetric_SkipsMissing(r, coefs) ==
  LET names == SelectSeq(SeqOfSet(DOMAIN coefs),
                         LAMBDA n : /\ BroadcastLossSelects(n, coefs[n])
                                    /\ r.raised = "no"
                                    /\ n \in DOMAIN r.ret.metrics)
  IN IF r.raised # "no" THEN r
     ELSE IF Len(names) = 0 THEN Raised("RuntimeError", r.log)
     ELSE Returned(LossOutput(r.ret.loss,
                     DictSet(r.ret.metrics, "broadcast_loss",
                             StackMean(LossesOf(r.ret.metrics, names)))),
                   r.log)

\* GWLosses.step: contrastive_loss and broadcast_loss, combine_loss, and then
\* the metric `broadcast_loss`, which reads metrics[name] for every selected
\* name of the coefficient table.
\* `metrics["broadcast_loss"] = torch.stack([metrics[name] for ...]).mean()`
\* on the result r of the step so far.
BroadcastLossMetric(r, coefs) ==
  LET names == SelectSeq(SeqOfSet(DOMAIN coefs),
                         LAMBDA n : BroadcastLossSelects(n, coefs[n]))
  IN IF r.raised # "no" THEN r
     ELSE IF \E i \in DOMAIN names : names[i] \notin DOMAIN r.ret.metrics
       THEN Raised("KeyError", r.log)
     ELSE IF Len(names) = 0 THEN Raised("RuntimeError", r.log)
     ELSE Returned(LossOutput(r.ret.loss,
                     DictSet(r.ret.metrics, "broadcast_loss",
                             StackMean(LossesOf(r.ret.metrics, names)))),
                   r.log)

GWLosses_step(dm, groups, nh, hl, coefs) ==
  BroadcastLossMetric(
    StepCombined(StepUpdate(Returned(EmptyDict, NoLog),
                            <<contrastive_loss(groups, hl),
                              broadcast_loss(dm, groups, nh, hl)>>),
                 coefs),
    coefs)

(* ------------------------- workspace orchestrator --------------------- *)

\* A tensor of a domain: raw, or encoded by the domain's module; size is its
\* leading (batch) dimension.
Tensor(d, n) == [domain |-> d, size |-> n, form |-> "raw"]

\* domain_mods[name].encode(domain): the latent keeps the leading dimension.
domain_encode(x) == [x EXCEPT !.form = "latent"]

\* A group of a batch: its frozenset key and its dict of tensors, in dict order.
Group(data) == [key |-> {data[i].domain : i \in DOMAIN data}, data |-> data]

\* batch[key] = value on a dict kept in insertion order: an existing key keeps
\* its place and takes the new value.
BatchSet(batch, g) ==
  IF \E i \in DOMAIN batch : batch[i].key = g.key
    THEN [i \in DOMAIN batch |-> IF batch[i].key = g.key THEN g ELSE batch[i]]
  ELSE Append(batch, g)

\* `for domain in data.keys(): batch[frozenset([domain])] = {domain: data[domain]}`
RECURSIVE AddSingletons(_, _)
AddSingletons(batch, todo) ==
  IF Len(todo) = 0 THEN batch
  ELSE AddSingletons(BatchSet(batch, Group(<<todo[1]>>)), Tail(todo))

\* A step that hands on the matched group alone, without the singletons.
BuildBatch_FullGroupOnly(data) == <<Group(data)>>

\* The batch validation_step, test_step and predict_step build from data:
\* `batch = {frozenset(data.keys()): data}` and then the singletons.
BuildBatch(data) == AddSingletons(<<Group(data)>>, data)

\* encode_domains: every tensor through its domain's module, the keys kept.
encode_domains(batch) ==
  [i \in DOMAIN batch |->
     [key |-> batch[i].key,
      data |-> [j \in DOMAIN batch[i].data |-> domain_encode(batch[i].data[j])]]]

\* The domain names of the groups, each in the order of its dict: the shape
\* the loss functions iterate over.
GroupsOf(domain_latents) ==
  [i \in DOMAIN domain_latents |->
     [j \in DOMAIN domain_latents[i].data |-> domain_latents[i].data[j].domain]]

\* A _get_batch_size that looks for a tensor in the first group only.
_get_batch_size_FirstGroupOnly(domain_latents) ==
  IF Len(domain_latents) = 0 \/ Len(domain_latents[1].data) = 0
    THEN [raised |-> "ValueError", size |-> 0]
  ELSE [raised |-> "no", size |-> domain_latents[1].data[1].size]

\* _get_batch_size: the size of the first tensor of the first group that has
\* one; ValueError("Empty batch.") when there is none.
RECURSIVE _get_batch_size(_)
_get_batch_size(domain_latents) ==
  IF Len(domain_latents) = 0 THEN [raised |-> "ValueError", size |-> 0]
  ELSE IF Len(domain_latents[1].data) > 0
    THEN [raised |-> "no", size |-> domain_latents[1].data[1].size]
  ELSE _get_batch_size(Tail(domain_latents))

\* self.loss_mod.step(domain_latents): the metrics map of the loss engine with
\* the scalar loss under "loss".
LossOutputAll(r, called) ==
  IF r.raised # "no" THEN Raised(r.raised, called \o r.log)
  ELSE Returned(DictSet(r.ret.metrics, "loss", r.ret.loss), called \o r.log)

LossModStepOn(loss_mod, dm, groups, nh, hl, coefs) ==
  LossOutputAll(IF loss_mod = "GWLosses"
                  THEN GWLosses_step(dm, groups, nh, hl, coefs)
                  ELSE GWLosses2Domains_step(dm, groups, nh, hl, coefs),
                <<[ev |-> "step", groups |-> groups]>>)

loss_mod_step(loss_mod, dm, domain_latents, nh, hl, coefs) ==
  LossModStepOn(loss_mod, dm, GroupsOf(domain_latents), nh, hl, coefs)

\* `for name, loss in losses.items(): self.log(f"{mode}/{name}", loss, batch_size=...)`
LogAll(losses, mode, batch_size) ==
  LET names == SeqOfSet(DOMAIN losses)
  IN [i \in DOMAIN names |->
        [name |-> mode \o "/" \o names[i], value |-> losses[names[i]],
         batch_size |-> batch_size]]

\* generic_step: what it returns or raises (out) and what it logged.
\* The rest of generic_step once the batch size is read: the step of the loss
\* module, the logging of its metrics, `return losses["loss"]`.
GenericStepLog(batch_size, losses, mode) ==
  IF batch_size.raised # "no"
    THEN [out |-> Raised(batch_size.raised, NoLog), logged |-> <<>>]
  ELSE IF losses.raised # "no"
    THEN [out |-> losses, logged |-> <<>>]
  ELSE [out |-> Returned("loss" :> losses.ret["loss"], losses.log),
        logged |-> LogAll(losses.ret, mode, batch_size.size)]

GenericStepOn(loss_mod, dm, domain_latents, mode, nh, hl, coefs) ==
  GenericStepLog(_get_batch_size(domain_latents),
                 loss_mod_step(loss_mod, dm, domain_latents, nh, hl, coefs),
                 mode)

generic_step(loss_mod, dm, batch, mode, nh, hl, coefs) ==
  GenericStepOn(loss_mod, dm, encode_domains(batch), mode, nh, hl, coefs)

\* A validation_step that logs every dataloader under the same prefix.
StepMode_IndexIgnored(prefix, dataloader_idx) == prefix

\* `if dataloader_idx == 0: mode = prefix, else mode = prefix + "/ood"`
StepMode(prefix, dataloader_idx) ==
  IF dataloader_idx = 0 THEN prefix ELSE prefix \o "/ood"

validation_step(loss_mod, dm, data, dataloader_idx, nh, hl, coefs) ==
  generic_step(loss_mod, dm, BuildBatch(data), StepMode("val", dataloader_idx),
               nh, hl, coefs)

test_step(loss_mod, dm, data, dataloader_idx, nh, hl, coefs) ==
  generic_step(loss_mod, dm, BuildBatch(data), StepMode("test", dataloader_idx),
               nh, hl, coefs)

training_step(loss_mod, dm, batch, nh, hl, coefs) ==
  generic_step(loss_mod, dm, batch, "train", nh, hl, coefs)

\* gw_mod.encode(latents), gw_mod.translate(latents, to) and
\* gw_mod.cycle(latents, through)[source]: the tensor each one hands back, told
\* apart by the primitive and the domains it went through.
gw_state(x) == [x EXCEPT !.form = "state"]
gw_translate(x, to) == [domain |-> to, size |-> x.size, form |-> "latent"]
gw_cycle(x, through) == [x EXCEPT !.form = "latent"]

\* batch_gw_states / batch_demi_cycles / batch_cycles: one pass of the loop
\* over latent_domains.items(); st = [predictions, raised].
BatchSkipsGroup(domains) == Cardinality(domains) > 1

GwStatesBody(st, g) ==
  IF BatchSkipsGroup(g.key) THEN st
  ELSE IF g.key = {} THEN [st EXCEPT !.raised = "IndexError"]
  ELSE LET domain_name == CHOOSE d \in g.key : TRUE
       IN [st EXCEPT !.predictions = DictSet(@, domain_name, gw_state(g.data[1]))]

DemiCyclesBody(st, g) ==
  IF BatchSkipsGroup(g.key) THEN st
  ELSE IF g.key = {} THEN [st EXCEPT !.raised = "IndexError"]
  ELSE LET domain_name == CHOOSE d \in g.key : TRUE
       IN [st EXCEPT !.predictions =
             DictSet(@, domain_name, gw_translate(g.data[1], domain_name))]

\* A batch_cycles that cycles through the domains of the data only.
CycleTargets_OfData(dm, domain_latents) ==
  SeqOfSet(UNION {domain_latents[i].key : i \in DOMAIN domain_latents})

\* `for domain_name_target in self.domain_mods.keys()`
CycleTargets(dm, domain_latents) == SeqOfSet(dm)

RECURSIVE CyclesTargetLoop(_, _, _)
CyclesTargetLoop(st, g, targets) ==
  IF Len(targets) = 0 \/ st.raised # "no" THEN st
  ELSE LET source == g.data[1].domain
           target == targets[1]
       IN CyclesTargetLoop(
            IF source = target THEN st
            ELSE [st EXCEPT !.predictions =
                    DictSet(@, <<source, target>>, gw_cycle(g.data[1], target))],
            g, Tail(targets))

CyclesBody(st, g, targets) ==
  IF BatchSkipsGroup(g.key) THEN st
  ELSE IF g.key = {} THEN [st EXCEPT !.raised = "StopIteration"]
  ELSE CyclesTargetLoop(st, g, targets)

\* batch_translations: the ordered pairs of distinct domains of a group of two
\* domains or more, each translated from the source alone.
RECURSIVE TranslationsPairLoop(_, _, _)
TranslationsPairLoop(st, g, pairs) ==
  IF Len(pairs) = 0 \/ st.raised # "no" THEN st
  ELSE LET source == g.data[pairs[1][1]]
           target == g.data[pairs[1][2]].domain
       IN TranslationsPairLoop(
            IF source.domain = target THEN st
            ELSE [st EXCEPT !.predictions =
                    DictSet(@, <<source.domain, target>>,
                            gw_translate(source, target))],
            g, Tail(pairs))

\* The index pairs (i, j) of two nested loops over 1..n, in loop order.
LoopPairs(n) == [k \in 1..(n * n) |-> <<((k - 1) \div n) + 1, ((k - 1) % n) + 1>>]

TranslationsBody(st, g) ==
  IF Cardinality(g.key) < 2 THEN st
  ELSE TranslationsPairLoop(st, g, LoopPairs(Len(g.data)))

\* The loop over latent_domains.items() of one of the four batch_* methods.
RECURSIVE BatchLoop(_, _, _, _)
BatchLoop(st, which, domain_latents, targets) ==
  IF Len(domain_latents) = 0 \/ st.raised # "no" THEN st
  ELSE LET g == domain_latents[1]
       IN BatchLoop(
            CASE which = "states" -> GwStatesBody(st, g)
              [] which = "demi_cycles" -> DemiCyclesBody(st, g)
              [] which = "cycles" -> CyclesBody(st, g, targets)
              [] which = "translations" -> TranslationsBody(st, g),
            which, Tail(domain_latents), targets)

BatchPredictions(which, dm, domain_latents) ==
  BatchLoop([predictions |-> EmptyDict, raised |-> "no"], which, domain_latents,
            CycleTargets(dm, domain_latents))

\* forward: the four maps, computed in the order of the dict literal; the
\* first one that raises ends the call.
forward(dm, domain_latents) ==
  LET order == <<"demi_cycles", "cycles", "translations", "states">>
      parts == [i \in DOMAIN order |-> BatchPredictions(order[i], dm, domain_latents)]
  IN IF \E i \in DOMAIN parts : parts[i].raised # "no"
       THEN LET first == CHOOSE i \in DOMAIN parts :
                           /\ parts[i].raised # "no"
                           /\ \A j \in 1..(i - 1) : parts[j].raised = "no"
            IN Raised(parts[first].raised, NoLog)
     ELSE Returned([demi_cycles |-> parts[1].predictions,
                    cycles |-> parts[2].predictions,
                    translations |-> parts[3].predictions,
                    states |-> parts[4].predictions], NoLog)

predict_step(dm, data) == forward(dm, encode_domains(BuildBatch(data)))

(* ------------------------------- inputs ------------------------------- *)

\* The iteration orders of a set of names.
Perms(S) == {p \in [1..Cardinality(S) -> S] : Range(p) = S}

\* The domains of key in the order perm gives them.
Ordered(key, perm) == SelectSeq(perm, LAMBDA d : d \in key)

\* Every non-empty subset of the names of perm, in a fixed order built from perm.
RECURSIVE KeysInOrder(_)
KeysInOrder(perm) ==
  IF Len(perm) = 0 THEN <<>>
  ELSE LET rest == KeysInOrder(Tail(perm))
       IN rest \o <<{perm[1]}>> \o [i \in DOMAIN rest |-> rest[i] \cup {perm[1]}]

\* A batch: at most MaxGroups domain groups with distinct keys, each group the
\* sequence of its domains in iteration order.
Batches(dm) ==
  {LET ks == SelectSeq(KeysInOrder(perm), LAMBDA k : k \in keys)
   IN [i \in DOMAIN ks |-> Ordered(ks[i], perm)] :
     keys \in {K \in SUBSET (SUBSET dm \ {{}}) : Cardinality(K) <= MaxGroups},
     perm \in Perms(dm)}

\* The loss values the hooks give the domains: all equal, or all different.
HookLosses(dm) == {[d \in dm |-> 2], [d \in dm |-> Rank(d)]}

\* Which hook calls of broadcast_loss return None: none, every call of one
\* kind, or every call for one domain.
BroadcastNoneHooks(dm) ==
  {{}} \cup {{k} \X dm : k \in HookKinds} \cup {HookKinds \X {d} : d \in dm}

\* Arguments of a direct call of combine_loss.
MetricNames == {"x", "y"}
MetricsArgs ==
  UNION {[S -> {Int2Rat(2), Int2Rat(4)}] : S \in SUBSET MetricNames}
CoefValues == {Float(1, 1), Float(0, 1), Float(1, 2), Float(-1, 1), PyInt(2)}
CoefsArgs == UNION {[S -> CoefValues] : S \in SUBSET MetricNames}

\* The leading dimension of the tensors of a matched sample.
BatchSize == 5

\* Matched data given to validation_step, test_step and predict_step: one
\* tensor per domain of a subset of the known domains, in any dict order.
MatchedData(dm) ==
  {LET names == Ordered(D, perm)
   IN [i \in DOMAIN names |-> Tensor(names[i], BatchSize)] :
     D \in SUBSET dm, perm \in Perms(dm)}

\* The batches given to training_step: the groups of a batch, the tensors of
\* the group at place i of leading dimension BatchSize + i - 1, and the same
\* with a group of no domain in front.
TrainBatchOf(b) ==
  [i \in DOMAIN b |-> Group([j \in DOMAIN b[i] |-> Tensor(b[i][j], BatchSize + i - 1)])]

TrainBatches(dm) ==
  {TrainBatchOf(b) : b \in Batches(dm)}
    \cup {TrainBatchOf(<<<<>>>> \o b) : b \in Batches(dm)}

\* Coefficient tables of a loss module: every coefficient above 0; one at 0,
\* one below 0 and one missing; an int coefficient; `contrastives` alone.
WorkspaceCoefs ==
  { [n \in {"fused", "cycles", "demi_cycles", "translations", "contrastives"} |->
       IF n = "contrastives" THEN Float(1, 10) ELSE Float(1, 1)],
    ("demi_cycles" :> Float(1, 1)) @@ ("cycles" :> Float(0, 1))
       @@ ("translations" :> Float(-1, 1)) @@ ("contrastives" :> Float(1, 2)) }

StepCoefs ==
  WorkspaceCoefs
    \cup { ("demi_cycles" :> Float(1, 2)) @@ ("contrastives" :> PyInt(2)),
           ("contrastives" :> Float(1, 1)) }

\* The loss values the hooks give the domains in a step of the workspace.
WorkspaceHookLosses(dm) == {[d \in dm |-> Rank(d)]}

\* Which hook calls return None in a direct call of GWLosses.step: none, or
\* every compute_fused_loss.
StepNoneHooks(dm) == {{}, {"fused"} \X dm}

LossMods == {"GWLosses2Domains", "GWLosses"}

DataloaderIdx == {0, 1, 2}

(* ---------------------------- state machine --------------------------- *)

Init ==
  /\ domain_mods \in (SUBSET PlainNames \ {{}}) \cup {OddNames}
  /\ pc = "idle"
  /\ op = "none"
  /\ latent_domains = <<>>
  /\ none_hooks = {}
  /\ hook_loss = <<>>
  /\ metrics_arg = <<>>
  /\ coefs_arg = <<>>
  /\ out = Returned(EmptyDict, NoLog)
  /\ self_loss_mod = "none"
  /\ data_arg = <<>>
  /\ batch_arg = <<>>
  /\ idx_arg = 0
  /\ logged = <<>>

Call_demi_cycle_loss ==
  /\ pc = "idle"
  /\ \E b \in Batches(domain_mods), hl \in HookLosses(domain_mods),
        D \in SUBSET domain_mods :
       /\ latent_domains' = b
       /\ hook_loss' = hl
       /\ none_hooks' = {"dcy"} \X D
       /\ out' = demi_cycle_loss(b, {"dcy"} \X D, hl)
  /\ pc' = "done"
  /\ op' = "demi_cycle_loss"
  /\ UNCHANGED <<domain_mods, metrics_arg, coefs_arg>>
  /\ UNCHANGED stepvars

Call_cycle_loss ==
  /\ pc = "idle"
  /\ \E b \in Batches(domain_mods), hl \in HookLosses(domain_mods),
        D \in SUBSET domain_mods :
       /\ latent_domains' = b
       /\ hook_loss' = hl
       /\ none_hooks' = {"cy"} \X D
       /\ out' = cycle_loss(domain_mods, b, {"cy"} \X D, hl)
  /\ pc' = "done"
  /\ op' = "cycle_loss"
  /\ UNCHANGED <<domain_mods, metrics_arg, coefs_arg>>
  /\ UNCHANGED stepvars

Call_translation_loss ==
  /\ pc = "idle"
  /\ \E b \in Batches(domain_mods), hl \in HookLosses(domain_mods),
        D \in SUBSET domain_mods :
       /\ latent_domains' = b
       /\ hook_loss' = hl
       /\ none_hooks' = {"tr"} \X D
       /\ out' = translation_loss(b, {"tr"} \X D, hl)
  /\ pc' = "done"
  /\ op' = "translation_loss"
  /\ UNCHANGED <<domain_mods, metrics_arg, coefs_arg>>
  /\ UNCHANGED stepvars

Call_contrastive_loss ==
  /\ pc = "idle"
  /\ \E b \in Batches(domain_mods), hl \in HookLosses(domain_mods) :
       /\ latent_domains' = b
       /\ hook_loss' = hl
       /\ out' = contrastive_loss(b, hl)
  /\ none_hooks' = {}
  /\ pc' = "done"
  /\ op' = "contrastive_loss"
  /\ UNCHANGED <<domain_mods, metrics_arg, coefs_arg>>
  /\ UNCHANGED stepvars

Call_broadcast_loss ==
  /\ pc = "idle"
  /\ \E b \in Batches(domain_mods), hl \in HookLosses(domain_mods),
        nh \in BroadcastNoneHooks(domain_mods) :
       /\ latent_domains' = b
       /\ hook_loss' = hl
       /\ none_hooks' = nh
       /\ out' = broadcast_loss(domain_mods, b, nh, hl)
  /\ pc' = "done"
  /\ op' = "broadcast_loss"
  /\ UNCHANGED <<domain_mods, metrics_arg, coefs_arg>>
  /\ UNCHANGED stepvars

Call_combine_loss ==
  /\ pc = "idle"
  /\ \E m \in MetricsArgs, c \in CoefsArgs :
       /\ metrics_arg' = m
       /\ coefs_arg' = c
       /\ out' = combine_loss(m, c)
  /\ pc' = "done"
  /\ op' = "combine_loss"
  /\ UNCHANGED <<domain_mods, latent_domains, none_hooks, hook_loss>>
  /\ UNCHANGED stepvars

\* The caller takes the result; the next call starts from scratch.
Return ==
  /\ pc = "done"
  /\ pc' = "idle"
  /\ op' = "none"
  /\ latent_domains' = <<>>
  /\ none_hooks' = {}
  /\ hook_loss' = <<>>
  /\ metrics_arg' = <<>>
  /\ coefs_arg' = <<>>
  /\ out' = Returned(EmptyDict, NoLog)
  /\ self_loss_mod' = "none"
  /\ data_arg' = <<>>
  /\ batch_arg' = <<>>
  /\ idx_arg' = 0
  /\ logged' = <<>>
  /\ UNCHANGED domain_mods

Call_GWLosses2Domains_step ==
  /\ pc = "idle"
  /\ \E b \in Batches(domain_mods), hl \in HookLosses(domain_mods),
        c \in StepCoefs :
       /\ latent_domains' = b
       /\ hook_loss' = hl
       /\ none_hooks' = {}
       /\ coefs_arg' = c
       /\ out' = GWLosses2Domains_step(domain_mods, b, {}, hl, c)
  /\ pc' = "done"
  /\ op' = "GWLosses2Domains.step"
  /\ self_loss_mod' = "GWLosses2Domains"
  /\ UNCHANGED <<domain_mods, metrics_arg, data_arg, batch_arg, idx_arg, logged>>

Call_GWLosses_step ==
  /\ pc = "idle"
  /\ \E b \in Batches(domain_mods), hl \in HookLosses(domain_mods),
        c \in StepCoefs, nh \in StepNoneHooks(domain_mods) :
       /\ latent_domains' = b
       /\ hook_loss' = hl
       /\ none_hooks' = nh
       /\ coefs_arg' = c
       /\ out' = GWLosses_step(domain_mods, b, nh, hl, c)
  /\ pc' = "done"
  /\ op' = "GWLosses.step"
  /\ self_loss_mod' = "GWLosses"
  /\ UNCHANGED <<domain_mods, metrics_arg, data_arg, batch_arg, idx_arg, logged>>

Call_training_step ==
  /\ pc = "idle"
  /\ \E b \in TrainBatches(domain_mods), hl \in WorkspaceHookLosses(domain_mods),
        lm \in LossMods, c \in WorkspaceCoefs :
       \E r \in {training_step(lm, domain_mods, b, {}, hl, c)} :
          /\ batch_arg' = b
          /\ latent_domains' = GroupsOf(encode_domains(b))
          /\ hook_loss' = hl
          /\ self_loss_mod' = lm
          /\ coefs_arg' = c
          /\ out' = r.out
          /\ logged' = r.logged
  /\ pc' = "done"
  /\ op' = "training_step"
  /\ none_hooks' = {}
  /\ UNCHANGED <<domain_mods, metrics_arg, data_arg, idx_arg>>

Call_validation_step ==
  /\ pc = "idle"
  /\ \E d \in MatchedData(domain_mods), idx \in DataloaderIdx,
        hl \in WorkspaceHookLosses(domain_mods), lm \in LossMods,
        c \in WorkspaceCoefs :
       \E r \in {validation_step(lm, domain_mods, d, idx, {}, hl, c)} :
          /\ data_arg' = d
          /\ idx_arg' = idx
          /\ batch_arg' = BuildBatch(d)
          /\ latent_domains' = GroupsOf(encode_domains(BuildBatch(d)))
          /\ hook_loss' = hl
          /\ self_loss_mod' = lm
          /\ coefs_arg' = c
          /\ out' = r.out
          /\ logged' = r.logged
  /\ pc' = "done"
  /\ op' = "validation_step"
  /\ none_hooks' = {}
  /\ UNCHANGED <<domain_mods, metrics_arg>>

Call_test_step ==
  /\ pc = "idle"
  /\ \E d \in MatchedData(domain_mods), idx \in DataloaderIdx,
        hl \in WorkspaceHookLosses(domain_mods), lm \in LossMods,
        c \in WorkspaceCoefs :
       \E r \in {test_step(lm, domain_mods, d, idx, {}, hl, c)} :
          /\ data_arg' = d
          /\ idx_arg' = idx
          /\ batch_arg' = BuildBatch(d)
          /\ latent_domains' = GroupsOf(encode_domains(BuildBatch(d)))
          /\ hook_loss' = hl
          /\ self_loss_mod' = lm
          /\ coefs_arg' = c
          /\ out' = r.out
          /\ logged' = r.logged
  /\ pc' = "done"
  /\ op' = "test_step"
  /\ none_hooks' = {}
  /\ UNCHANGED <<domain_mods, metrics_arg>>

Call_predict_step ==
  /\ pc = "idle"
  /\ \E d \in MatchedData(domain_mods) :
       /\ data_arg' = d
       /\ batch_arg' = BuildBatch(d)
       /\ latent_domains' = GroupsOf(encode_domains(BuildBatch(d)))
       /\ out' = predict_step(domain_mods, d)
  /\ pc' = "done"
  /\ op' = "predict_step"
  /\ UNCHANGED <<domain_mods, none_hooks, hook_loss, metrics_arg, coefs_arg,
                 self_loss_mod, idx_arg, logged>>

Next ==
  \/ Call_demi_cycle_loss
  \/ Call_cycle_loss
  \/ Call_translation_loss
  \/ Call_contrastive_loss
  \/ Call_broadcast_loss
  \/ Call_combine_loss
  \/ Return

Spec == Init /\ [][Next]_vars

\* The steps: those of the two loss modules, called directly, and those of the
\* workspace, which hand the batch to the loss module they were built with.
NextSteps ==
  \/ Call_GWLosses2Domains_step
  \/ Call_GWLosses_step
  \/ Call_training_step
  \/ Call_validation_step
  \/ Call_test_step
  \/ Call_predict_step
  \/ Return

SpecSteps == Init /\ [][NextSteps]_vars

(* ------------------------------- claims ------------------------------- *)

Done(name) == pc = "done" /\ op = name

\* The events of one kind in the record of a call, by position.
Events(kind) == {i \in DOMAIN out.log : out.log[i].ev = kind}

RECURSIVE SumOver(_, _)
SumOver(S, f) ==
  IF S = {} THEN <<0, 1>>
  ELSE LET x == CHOOSE y \in S : TRUE IN RatAdd(f[x], SumOver(S \ {x}, f))

\* The names combine_loss is to take: keys of both maps with a float
\* coefficient above 0.
C1_Taken ==
  {n \in DOMAIN coefs_arg \cap DOMAIN metrics_arg :
     coefs_arg[n].type = "float" /\ coefs_arg[n].val[1] > 0}

\* C1: combine_loss returns the sum of metrics[name] * coef over the names
\* that are keys of both maps and have a float coefficient > 0, divided by the
\* number of these names; a coefficient key missing from the metrics raises
\* nothing, and combine_loss({x:2, y:4}, {x:1.0, y:0.0}) is 2.
C1_CombineLossMean ==
  Done("combine_loss") =>
    /\ C1_Taken # {} =>
          /\ out.raised = "no"
          /\ out.ret["loss"] =
               RatMul(SumOver(C1_Taken,
                        [n \in C1_Taken |->
                           RatMul(metrics_arg[n], coefs_arg[n].val)]),
                      Rat(1, Cardinality(C1_Taken)))
    /\ (/\ metrics_arg = ("x" :> <<2, 1>>) @@ ("y" :> <<4, 1>>)
        /\ coefs_arg = ("x" :> Float(1, 1)) @@ ("y" :> Float(0, 1)))
          => out.ret["loss"] = <<2, 1>>

\* combine_loss has returned for a table with a zero coefficient, a key missing
\* from the metrics and a taken name.
C1_Witness ==
  /\ Done("combine_loss")
  /\ out.raised = "no"
  /\ metrics_arg = ("x" :> <<2, 1>>)
  /\ coefs_arg = ("x" :> Float(1, 2)) @@ ("y" :> Float(1, 1))
  /\ out.ret["loss"] = <<1, 1>>

\* The calls of contrastive_fn made for the group at position i of the batch.
C2_CallsFor(i) ==
  {j \in Events("call") : out.log[j].group = Range(latent_domains[i])}

\* C2 as stated: every group of k >= 2 domains gets k*(k-1)/2 per-pair
\* contrastive metrics, one per unordered pair of its domains.
C2_Original ==
  Done("contrastive_loss") =>
    \A i \in DOMAIN latent_domains :
      LET k == Len(latent_domains[i])
      IN k >= 2 => Cardinality(C2_CallsFor(i)) * 2 = k * (k - 1)

\* C2 amended: a group of exactly two domains has its one pair scored exactly
\* once, a group of any other size has none scored; the output holds one
\* per-pair metric per two-domain group, and `contrastives` as soon as there
\* is one such group.
C2_PairsOfTwoDomainGroups ==
  Done("contrastive_loss") =>
    LET twos == {i \in DOMAIN latent_domains : Len(latent_domains[i]) = 2}
    IN /\ \A i \in DOMAIN latent_domains :
            Cardinality(C2_CallsFor(i)) = IF i \in twos THEN 1 ELSE 0
       /\ twos # {} =>
            /\ out.raised = "no"
            /\ "contrastives" \in DOMAIN out.ret
            /\ Cardinality({out.log[j].name : j \in Events("call")})
                 = Cardinality(twos)
            /\ \A j \in Events("call") : out.log[j].name \in DOMAIN out.ret

\* contrastive_loss has returned for a batch with a group of three domains and
\* a group of two.
C2_Witness ==
  /\ Done("contrastive_loss")
  /\ out.raised = "no"
  /\ \E i, j \in DOMAIN latent_domains :
       Len(latent_domains[i]) = 3 /\ Len(latent_domains[j]) = 2

\* C3: in one broadcast_loss call no two computed losses are stored under the
\* same name (none is overwritten, no name is appended twice to a bucket).
C3_BroadcastNamesUnique ==
  Done("broadcast_loss") =>
    \A i, j \in Events("store") :
      i # j => out.log[i].name # out.log[j].name

\* C4: translation_loss never stores a translation loss under a name it has
\* already stored in the same call: the second time it raises instead.
C4_DuplicateTranslationRaises ==
  Done("translation_loss") =>
    \A i, j \in Events("store") :
      i # j => out.log[i].name # out.log[j].name

\* The call just made, had every hook returned a result.
C5_WithEveryHookAnswering ==
  CASE op = "demi_cycle_loss" -> demi_cycle_loss(latent_domains, {}, hook_loss)
    [] op = "cycle_loss" -> cycle_loss(domain_mods, latent_domains, {}, hook_loss)
    [] op = "translation_loss" -> translation_loss(latent_domains, {}, hook_loss)
    [] op = "broadcast_loss" ->
         broadcast_loss(domain_mods, latent_domains, {}, hook_loss)

\* C5: hooks returning None never make demi_cycle_loss, cycle_loss,
\* translation_loss or broadcast_loss fail: a call that completes when every
\* hook returns a result completes whichever hooks return None.
C5_NoneIsNeverAnError ==
  (/\ pc = "done"
   /\ op \in {"demi_cycle_loss", "cycle_loss", "translation_loss", "broadcast_loss"}
   /\ C5_WithEveryHookAnswering.raised = "no")
    => out.raised = "no"

\* The partitions broadcast_loss went through for the group at position i.
C6_PartitionsOf(i) ==
  {j \in Events("partition") : out.log[j].group = Range(latent_domains[i])}

\* C6: for a group of k domains broadcast_loss takes 2^k - 1 active subsets:
\* every non-empty subset of the group once, never the empty one.
C6_EveryNonEmptySubsetOnce ==
  Done("broadcast_loss") =>
    \A i \in DOMAIN latent_domains :
      LET g == Range(latent_domains[i])
      IN /\ Cardinality(C6_PartitionsOf(i)) = 2 ^ Cardinality(g) - 1
         /\ {out.log[j].active : j \in C6_PartitionsOf(i)} = SUBSET g \ {{}}

\* broadcast_loss has gone through a group of three domains and a group of one.
C6_Witness ==
  /\ Done("broadcast_loss")
  /\ \E i, j \in DOMAIN latent_domains :
       /\ Len(latent_domains[i]) = 3 /\ Cardinality(C6_PartitionsOf(i)) = 7
       /\ Len(latent_domains[j]) = 1 /\ Cardinality(C6_PartitionsOf(j)) = 1

\* C7: the output of broadcast_loss holds a bucket's summary key exactly when
\* a loss of that bucket was computed; for one group of two domains that are
\* all the known domains, with every hook answering, it holds all four.
C7_SummaryIffBucketUsed ==
  Done("broadcast_loss") =>
    /\ \A b \in BucketNames :
         b \in DOMAIN out.ret <=> \E j \in Events("store") : out.log[j].bucket = b
    /\ (/\ Len(latent_domains) = 1
        /\ Len(latent_domains[1]) = 2
        /\ Range(latent_domains[1]) = domain_mods
        /\ none_hooks = {})
          => BucketNames \subseteq DOMAIN out.ret

\* broadcast_loss has returned two summaries and left two out, for hooks of
\* which one kind returns None.
C7_Witness ==
  /\ Done("broadcast_loss")
  /\ none_hooks # {}
  /\ Cardinality(BucketNames \cap DOMAIN out.ret) = 2
  /\ Len(latent_domains) = 2

\* The domains present as a single-domain group whose hook of a kind answers.
SinglesAnswering(kind) ==
  {latent_domains[i][1] : i \in {j \in DOMAIN latent_domains :
      Len(latent_domains[j]) = 1 /\ <<kind, latent_domains[j][1]>> \notin none_hooks}}

C8_CycleName(s, t) == "cycle_" \o s \o "_through_" \o t

C8_Pairs == {p \in SinglesAnswering("cy") \X domain_mods : p[1] # p[2]}

\* C8: cycle_loss returns one metric cycle_{s}_through_{t} for every ordered
\* pair of a single-domain group s and another known domain t, and nothing for
\* s = t or for a multi-domain group: N*(N-1) of them when the N known domains
\* are all there as single-domain groups and every hook answers.
C8_CyclePerOrderedPair ==
  Done("cycle_loss") =>
    /\ out.raised = "no" =>
         DOMAIN out.ret =
           {"cycles"} \cup {C8_CycleName(p[1], p[2]) : p \in C8_Pairs}
                      \cup {C8_CycleName(p[1], p[2]) \o "_m" : p \in C8_Pairs}
    /\ (SinglesAnswering("cy") = domain_mods /\ Cardinality(domain_mods) >= 2) =>
         /\ out.raised = "no"
         /\ Cardinality({k \in DOMAIN out.ret :
                \E s \in domain_mods, t \in domain_mods : k = C8_CycleName(s, t)})
              = Cardinality(domain_mods) * (Cardinality(domain_mods) - 1)

\* cycle_loss has returned for three known domains, each one a single-domain
\* group.
C8_Witness ==
  /\ Done("cycle_loss")
  /\ out.raised = "no"
  /\ Cardinality(domain_mods) = 3
  /\ SinglesAnswering("cy") = domain_mods
  /\ C8_CycleName("c", "a") \in DOMAIN out.ret

\* C9: demi_cycle_loss returns demi_cycle_{d} for exactly the domains d of the
\* single-domain groups (whose hook answers), and `demi_cycles` is the
\* unweighted mean of these losses, the hooks' own metrics left out.
C9_DemiCyclePerSingleGroup ==
  (Done("demi_cycle_loss") /\ out.raised = "no") =>
    LET live == SinglesAnswering("dcy")
    IN /\ DOMAIN out.ret =
            {"demi_cycles"} \cup {"demi_cycle_" \o d : d \in live}
                            \cup {"demi_cycle_" \o d \o "_m" : d \in live}
       /\ \A d \in live : out.ret["demi_cycle_" \o d] = Int2Rat(hook_loss[d])
       /\ out.ret["demi_cycles"] =
            RatMul(SumOver(live, [d \in live |-> Int2Rat(hook_loss[d])]),
                   Rat(1, Cardinality(live)))

\* demi_cycle_loss has returned for a batch with two single-domain groups of
\* different losses and a group of two domains.
C9_Witness ==
  /\ Done("demi_cycle_loss")
  /\ out.raised = "no"
  /\ Cardinality(SinglesAnswering("dcy")) = 2
  /\ \E i \in DOMAIN latent_domains : Len(latent_domains[i]) = 2
  /\ out.ret["demi_cycles"][2] = 2

\* C10: in one contrastive_loss call an unordered pair of domains is scored at
\* most once: contrastive_fn is called at most once per pair, and the output
\* never holds both contrastive_A_and_B and contrastive_B_and_A.
C10_PairScoredOnce ==
  Done("contrastive_loss") =>
    /\ \A i, j \in Events("call") :
         i # j => {out.log[i].domain1, out.log[i].domain2}
                    # {out.log[j].domain1, out.log[j].domain2}
    /\ \A A \in domain_mods, B \in domain_mods :
         ~(/\ A # B
           /\ ("contrastive_" \o A \o "_and_" \o B) \in DOMAIN out.ret
           /\ ("contrastive_" \o B \o "_and_" \o A) \in DOMAIN out.ret)

\* contrastive_loss has scored the pairs of two groups, one of them in the
\* order opposite to Python's string order.
C10_Witness ==
  /\ Done("contrastive_loss")
  /\ Cardinality(Events("call")) = 2
  /\ "contrastive_b_and_a" \in DOMAIN out.ret

(* --------------------------- claims on the steps ----------------------- *)

\* A step of a loss module has returned its LossOutput.
StepReturned ==
  /\ pc = "done"
  /\ op \in {"GWLosses2Domains.step", "GWLosses.step"}
  /\ out.raised = "no"

\* The names that count in the scalar loss: in the coefficient table with a
\* float above 0, and among the metrics.
C11_Counted ==
  {n \in DOMAIN coefs_arg \cap DOMAIN out.ret.metrics :
     coefs_arg[n].type = "float" /\ coefs_arg[n].val[1] > 0}

\* What the loss families of the step returned, each on its own.
C11_Families ==
  IF op = "GWLosses.step"
    THEN {contrastive_loss(latent_domains, hook_loss),
          broadcast_loss(domain_mods, latent_domains, none_hooks, hook_loss)}
  ELSE {demi_cycle_loss(latent_domains, none_hooks, hook_loss),
        cycle_loss(domain_mods, latent_domains, none_hooks, hook_loss),
        translation_loss(latent_domains, none_hooks, hook_loss),
        contrastive_loss(latent_domains, hook_loss)}

LoggingStepDone ==
  pc = "done" /\ op \in {"training_step", "validation_step", "test_step"}

\* The mode prefix the step just made is to log under.
C12_Mode ==
  CASE op = "training_step" -> "train"
    [] op = "validation_step" -> IF idx_arg = 0 THEN "val" ELSE "val/ood"
    [] op = "test_step" -> IF idx_arg = 0 THEN "test" ELSE "test/ood"

\* C12: a step that returns has logged exactly one entry `{mode}/{metric}` for
\* every metric the loss module returned, all under the mode of the step:
\* train, val or test, and val/ood or test/ood for a dataloader index other
\* than 0; a step that raises has logged nothing.
C12_LoggedUnderMode ==
  LoggingStepDone =>
    IF out.raised # "no" THEN logged = <<>>
    ELSE \E r \in {LossModStepOn(self_loss_mod, domain_mods, latent_domains,
                                 none_hooks, hook_loss, coefs_arg)} :
           /\ {logged[i].name : i \in DOMAIN logged}
                = {C12_Mode \o "/" \o n : n \in DOMAIN r.ret}
           /\ Len(logged) = Cardinality(DOMAIN r.ret)
           /\ \A i \in DOMAIN logged :
                \E n \in DOMAIN r.ret :
                  /\ logged[i].name = C12_Mode \o "/" \o n
                  /\ logged[i].value = r.ret[n]

\* validation_step has returned for two domains, tensors of leading dimension
\* 5 and dataloader index 1, and logged the loss as val/ood/loss.
C12_Witness ==
  /\ pc = "done" /\ op = "validation_step" /\ out.raised = "no"
  /\ idx_arg = 1
  /\ Len(data_arg) = 2
  /\ \E i \in DOMAIN logged :
       logged[i].name = "val/ood/loss" /\ logged[i].batch_size = 5
  /\ \E i \in DOMAIN logged : logged[i].name = "val/ood/demi_cycles"

\* The groups of the batch of the step that hold a tensor, by place.
C13_WithTensor == {i \in DOMAIN batch_arg : Len(batch_arg[i].data) > 0}

\* The loss module was invoked during the step.
C13_EngineInvoked == \E i \in DOMAIN out.log : out.log[i].ev = "step"

\* C13: a logging step on a batch without any tensor (no group, or groups of
\* no domain only) raises the "Empty batch" ValueError, the loss module not
\* invoked and nothing logged; with a tensor the loss module is invoked, and
\* everything logged carries the leading dimension of the first tensor of the
\* first group that has one.
C13_EmptyBatchFailsFirst ==
  LoggingStepDone =>
    IF C13_WithTensor = {}
      THEN out.raised = "ValueError" /\ ~C13_EngineInvoked /\ logged = <<>>
    ELSE LET first == CHOOSE i \in C13_WithTensor :
                        \A j \in C13_WithTensor : i <= j
         IN /\ C13_EngineInvoked
            /\ \A i \in DOMAIN logged :
                 logged[i].batch_size = batch_arg[first].data[1].size

\* A training_step on a batch of groups without a domain has raised.
C13_Witness ==
  /\ pc = "done" /\ op = "training_step"
  /\ Len(batch_arg) = 1 /\ batch_arg[1].key = {}
  /\ out.raised = "ValueError"

\* A training_step has logged with the leading dimension of its second group,
\* the first one holding no tensor.
C13_SkippedEmptyGroup ==
  /\ pc = "done" /\ op = "training_step"
  /\ Len(batch_arg) >= 2 /\ batch_arg[1].key = {}
  /\ Len(logged) > 0
  /\ logged[1].batch_size = BatchSize + 1

\* The domains of the matched data of the step.
C14_D == {data_arg[i].domain : i \in DOMAIN data_arg}

\* C14: from matched data over a non-empty set D of domains validation_step,
\* test_step and predict_step build the group D and the group {d} of every d
\* of D and no other, each once (|D| + 1 groups, one when |D| = 1), no key
\* empty; the group D holds the data as given and the group {d} the very
\* sample the data holds for d.
C14_FullGroupAndSingletons ==
  (/\ pc = "done"
   /\ op \in {"validation_step", "test_step", "predict_step"}
   /\ C14_D # {}) =>
    /\ {batch_arg[i].key : i \in DOMAIN batch_arg} = {C14_D} \cup {{d} : d \in C14_D}
    /\ Len(batch_arg) = IF Cardinality(C14_D) >= 2 THEN Cardinality(C14_D) + 1 ELSE 1
    /\ \A i \in DOMAIN batch_arg :
         /\ batch_arg[i].key # {}
         /\ batch_arg[i].key = {batch_arg[i].data[j].domain : j \in DOMAIN batch_arg[i].data}
         /\ Len(batch_arg[i].data) = Cardinality(batch_arg[i].key)
         /\ \A j \in DOMAIN batch_arg[i].data :
              \E k \in DOMAIN data_arg : batch_arg[i].data[j] = data_arg[k]
    /\ \E i \in DOMAIN batch_arg : batch_arg[i].data = data_arg

\* predict_step has built the four groups of data over three domains.
C14_Witness ==
  /\ pc = "done" /\ op = "predict_step"
  /\ Cardinality(C14_D) = 3
  /\ Len(batch_arg) = 4
  /\ batch_arg[1].key = C14_D
  /\ batch_arg[4].key = {data_arg[3].domain}

\* C15: predict_step on matched data over a non-empty set D of domains, K
\* the known domains, returns the four maps demi_cycles, cycles, translations
\* and states and nothing else: demi_cycles and states with one entry per
\* domain of D, cycles one per pair (d, t) of a d of D and a t of K other than
\* d, translations one per ordered pair of distinct domains of D.
C15_PredictionEntries ==
  (pc = "done" /\ op = "predict_step" /\ C14_D # {}) =>
    /\ out.raised = "no"
    /\ DOMAIN out.ret = {"demi_cycles", "cycles", "translations", "states"}
    /\ DOMAIN out.ret.demi_cycles = C14_D
    /\ DOMAIN out.ret.states = C14_D
    /\ DOMAIN out.ret.cycles =
         {p \in C14_D \X domain_mods : p[1] # p[2]}
    /\ DOMAIN out.ret.translations =
         {p \in C14_D \X C14_D : p[1] # p[2]}

\* predict_step has returned for data over two of three known domains: four
\* cycles, two translations.
C15_Witness ==
  /\ pc = "done" /\ op = "predict_step" /\ out.raised = "no"
  /\ Cardinality(domain_mods) = 3
  /\ Cardinality(C14_D) = 2
  /\ Cardinality(DOMAIN out.ret.cycles) = 4
  /\ Cardinality(DOMAIN out.ret.translations) = 2

(* ---------------------- claims on broadcast_loss ---------------------- *)

\* The cycle losses broadcast_loss stored for the active subset of the
\* partition event at position j, by the domain they score.
CycleStores(j) ==
  {out.log[i].target : i \in {k \in Events("store") :
      /\ out.log[k].bucket = "cycles"
      /\ out.log[k].group = out.log[j].group
      /\ out.log[k].active = out.log[j].active}}

\* The active domains of the partition event at position j whose cycle hook
\* returns a result.
CycleAnswering(j) ==
  {d \in out.log[j].active : <<"cy", d>> \notin none_hooks}

\* C17 as stated: a cycle loss is produced for an active subset exactly when
\* the subset is a strict subset of the group being processed.
C17_Original ==
  Done("broadcast_loss") =>
    \A j \in Events("partition") :
      CycleStores(j) =
        IF out.log[j].active # out.log[j].group THEN CycleAnswering(j) ELSE {}

\* C17: a cycle loss is produced for an active subset exactly when the subset
\* has fewer domains than the workspace decodes to (all the known domains),
\* for each active domain whose cycle hook answers; it is named after the
\* active subset, the known domains outside it and the group. So every strict
\* subset of the group gets one, and the whole group too unless the group is
\* all the known domains.
C17_CycleIffFewerThanKnown ==
  Done("broadcast_loss") =>
    /\ \A j \in Events("partition") :
         /\ CycleStores(j) =
              IF Cardinality(out.log[j].active) < Cardinality(domain_mods)
                THEN CycleAnswering(j) ELSE {}
         /\ out.log[j].active # out.log[j].group => CycleStores(j) = CycleAnswering(j)
    /\ \A k \in Events("store") :
         out.log[k].bucket = "cycles" =>
           out.log[k].name =
             BroadcastCycleLabel(out.log[k].active,
                                 domain_mods \ out.log[k].active,
                                 out.log[k].target, out.log[k].group) \o "_loss"

\* broadcast_loss has stored a cycle loss for a whole group that is smaller
\* than the set of known domains, and none for a group that is all of them.
C17_Witness ==
  /\ Done("broadcast_loss")
  /\ \E j, k \in Events("partition") :
       /\ out.log[j].active = out.log[j].group
       /\ out.log[j].group # domain_mods
       /\ CycleStores(j) = out.log[j].group
       /\ out.log[k].active = domain_mods
       /\ CycleStores(k) = {}
       /\ CycleAnswering(k) # {}

\* The bucket and the hook C18 gives the decoded domain d for the active
\* subset S.
C18_Bucket(S, d) ==
  IF S = {d} THEN [bucket |-> "demi_cycles", hook |-> "dcy"]
  ELSE IF d \notin S THEN [bucket |-> "translations", hook |-> "tr"]
  ELSE [bucket |-> "fused", hook |-> "fused"]

\* The losses stored for the decoded domain d in the pass over the partition
\* event at position j, the cycle losses apart.
C18_Stores(j, d) ==
  {k \in Events("store") :
     /\ out.log[k].bucket # "cycles"
     /\ out.log[k].group = out.log[j].group
     /\ out.log[k].active = out.log[j].active
     /\ out.log[k].target = d}

\* C18: for an active subset S of a group G and a decoded domain d,
\* broadcast_loss stores a loss only if d is in G, and then exactly one, in
\* the bucket demi_cycles if S = {d}, translations if d is not in S, fused
\* otherwise; it is there exactly when the hook of that bucket returns a
\* result for d, whatever the other hooks return; and no name is appended to
\* two of the four buckets.
C18_OneBucketByActiveSubset ==
  Done("broadcast_loss") =>
    /\ \A j \in Events("partition"), d \in domain_mods :
         LET e == out.log[j]
             c == C18_Bucket(e.active, d)
             ks == C18_Stores(j, d)
         IN IF d \in e.group /\ <<c.hook, d>> \notin none_hooks
              THEN /\ Cardinality(ks) = 1
                   /\ \A k \in ks :
                        /\ out.log[k].bucket = c.bucket
                        /\ out.log[k].name = BroadcastLabel(e.active, d) \o "_loss"
              ELSE ks = {}
    /\ \A k, l \in Events("store") :
         out.log[k].name = out.log[l].name => out.log[k].bucket = out.log[l].bucket

\* broadcast_loss has gone through a group of two domains or more that lacks
\* a known domain, stored losses in the three buckets, and left out the
\* losses of one hook that returns None.
C18_Witness ==
  /\ Done("broadcast_loss")
  /\ \E j \in Events("partition") :
       /\ Cardinality(out.log[j].active) >= 2
       /\ out.log[j].group # domain_mods
  /\ \E d \in domain_mods : <<"tr", d>> \in none_hooks /\ <<"dcy", d>> \notin none_hooks
  /\ {out.log[k].bucket : k \in Events("store")} =
       {"demi_cycles", "fused", "cycles"}

\* The cycle losses of the call in the order broadcast_loss appended them:
\* their store events, and their values.
CycleEvents ==
  SelectSeq(out.log, LAMBDA e : e.ev = "store" /\ e.bucket = "cycles")

CycleValues(events) == [i \in DOMAIN events |-> out.ret[events[i].name]]

\* The mean of xs in which the second term weighs 3 and the others 1.
SecondTripledMean(xs) ==
  LET n == Len(xs)
      w == [i \in 1..n |-> IF n > 1 /\ i = 2 THEN 3 ELSE 1]
      num == RatSum([i \in 1..n |-> RatMul(Int2Rat(w[i]), xs[i])])
      den == RatSum([i \in 1..n |-> Int2Rat(w[i])])
  IN RatMul(num, Rat(den[2], den[1]))

\* C19: the `cycles` summary of broadcast_loss is a mean of the call's cycle
\* losses: the loss itself when there is one, and for n > 1 the weighted mean
\* in which the second term has weight 3 and every other term weight 1, so
\* that n equal losses c give c.
C19_CyclesIsWeightedMean ==
  Done("broadcast_loss") =>
    \A events \in {CycleEvents} :
      Len(events) > 0 =>
        LET xs == CycleValues(events)
        IN /\ out.ret["cycles"] = SecondTripledMean(xs)
           /\ (\A i \in DOMAIN xs : xs[i] = xs[1]) => out.ret["cycles"] = xs[1]

\* The groups of a batch in the opposite iteration order.
Reversed(groups) ==
  [i \in DOMAIN groups |-> groups[Len(groups) + 1 - i]]

\* The names of the cycle losses a result of broadcast_loss records, in the
\* order they were appended.
CycleNamesOf(r) ==
  LET events == SelectSeq(r.log, LAMBDA e : e.ev = "store" /\ e.bucket = "cycles")
  IN [i \in DOMAIN events |-> events[i].name]

C21_Targets ==
  {p \in (DOMAIN latent_domains) \X domain_mods :
     /\ Len(latent_domains[p[1]]) >= 2
     /\ p[2] \in Range(latent_domains[p[1]])
     /\ <<"tr", p[2]>> \notin none_hooks}

\* translation_{sources joined by "/"}_to_{t}, the sources being the domains
\* of the group other than t.
C21_Name(i, t) ==
  "translation_"
    \o Join(SelectSeq(latent_domains[i], LAMBDA d : d # t), "/")
    \o "_to_" \o t

\* C21: translation_loss returns, for every group of k >= 2 domains, k
\* translation metrics, one for each target t of the group, named after the
\* k - 1 other domains of the group and holding the loss scored for t; groups
\* of one domain give none; `translations` is the unweighted mean of the
\* translation losses computed.
C21_OneTranslationPerTarget ==
  (Done("translation_loss") /\ out.raised = "no") =>
    /\ \A j \in Events("store") :
         /\ Cardinality(out.log[j].group) >= 2
         /\ Range(out.log[j].sources) = out.log[j].group \ {out.log[j].target}
    /\ \A p \in C21_Targets :
         /\ C21_Name(p[1], p[2]) \in DOMAIN out.ret
         /\ out.ret[C21_Name(p[1], p[2])] = Int2Rat(hook_loss[p[2]])
    /\ Cardinality({C21_Name(p[1], p[2]) : p \in C21_Targets})
         = Cardinality(C21_Targets)
    /\ DOMAIN out.ret =
         {"translations"} \cup {C21_Name(p[1], p[2]) : p \in C21_Targets}
           \cup {C21_Name(p[1], p[2]) \o "_m" : p \in C21_Targets}
    /\ out.ret["translations"] =
         RatMul(SumOver(C21_Targets,
                        [p \in C21_Targets |-> Int2Rat(hook_loss[p[2]])]),
                Rat(1, Cardinality(C21_Targets)))

(* ----------------------- claims on GWLosses.step ---------------------- *)

\* The names of the coefficient table that make up the metric
\* `broadcast_loss`: a float above 0, `contrastives` apart.
C22_Selected ==
  {n \in DOMAIN coefs_arg :
     /\ coefs_arg[n].type = "float"
     /\ coefs_arg[n].val[1] > 0
     /\ n # "contrastives"}

\* The names combine_loss can count: a float above 0, and among names.
C22_Countable(names) ==
  {n \in DOMAIN coefs_arg \cap names :
     coefs_arg[n].type = "float" /\ coefs_arg[n].val[1] > 0}

C22_Returned ==
  /\ Done("GWLosses.step")
  /\ out.raised = "no"
  /\ Cardinality(C22_Selected) = 4
  /\ \E n, m \in C22_Selected : out.ret.metrics[n] # out.ret.metrics[m]

(* ------------------- claims on the empty aggregates ------------------- *)

\* A direct call of one of the two loss steps has ended.
C23_StepDone ==
  pc = "done" /\ op \in {"GWLosses2Domains.step", "GWLosses.step"}

\* The sizes of the groups of the batch.
C23_Sizes == {Len(latent_domains[i]) : i \in DOMAIN latent_domains}

\* What each loss family returns on the batch of the step, with the summary
\* key it writes and whether the batch has a group it applies to.
C23_Families ==
  { [r |-> demi_cycle_loss(latent_domains, none_hooks, hook_loss),
     key |-> "demi_cycles", applies |-> 1 \in C23_Sizes],
    [r |-> cycle_loss(domain_mods, latent_domains, none_hooks, hook_loss),
     key |-> "cycles", applies |-> 1 \in C23_Sizes],
    [r |-> translation_loss(latent_domains, none_hooks, hook_loss),
     key |-> "translations", applies |-> \E n \in C23_Sizes : n >= 2],
    [r |-> contrastive_loss(latent_domains, hook_loss),
     key |-> "contrastives", applies |-> 2 \in C23_Sizes] }

\* C23: on the batch of a step, each of demi_cycle_loss, cycle_loss,
\* translation_loss and contrastive_loss returns a map that holds its summary
\* key, or raises, and it raises (on the mean of an empty list) when the
\* batch has no group it applies to; broadcast_loss returns on every batch,
\* with a summary for the buckets it filled only; a step on a batch of
\* single-domain groups only fails.
C23_SummaryOrFailure ==
  C23_StepDone =>
    /\ \A f \in C23_Families :
         /\ f.r.raised = "no" => f.key \in DOMAIN f.r.ret
         /\ ~f.applies => f.r.raised = "RuntimeError"
    /\ \A b \in {broadcast_loss(domain_mods, latent_domains, none_hooks, hook_loss)} :
         /\ b.raised = "no"
         /\ C23_Sizes = {1} => DOMAIN b.ret \cap {"translations", "fused"} = {}
    /\ C23_Sizes = {1} => out.raised = "RuntimeError"

\* A step has failed on a batch of two single-domain groups, on which
\* translation_loss and contrastive_loss raise while demi_cycle_loss,
\* cycle_loss and broadcast_loss return.
C23_Witness ==
  /\ C23_StepDone
  /\ C23_Sizes = {1}
  /\ Len(latent_domains) = 2
  /\ out.raised = "RuntimeError"
  /\ {f.key : f \in {g \in C23_Families : g.r.raised = "no"}}
       = {"demi_cycles", "cycles"}
  /\ \A b \in {broadcast_loss(domain_mods, latent_domains, none_hooks, hook_loss)} :
       {"demi_cycles", "cycles"} \subseteq DOMAIN b.ret

====
